---- MODULE Spec2Model ----
(***************************************************************************)
(* Model of the aws_athena_parser workspace.                               *)
(*                                                                         *)
(*   aws-athena-parser : build_map  (ResultSet -> Vec<HashMap>)            *)
(*   from-athena-derive: the from_athena the derive macro generates        *)
(*   parser            : from_type, build_tups                             *)
(*                                                                         *)
(* Text (String / &str) is a sequence of one-character strings, so that    *)
(* str::parse can be computed character by character.  Column names and    *)
(* field names are text too.  Type tags are only ever compared with the    *)
(* literals of the match in from_type and are kept as TLA+ strings.        *)
(***************************************************************************)
EXTENDS Integers, Sequences, FiniteSets, TLC

VARIABLES
    pc,          \* which call the caller has made so far
    result_set,  \* the ResultSet handed to build_map / build_tups
    maps,        \* build_map's return value: Vec<HashMap<String, String>>
    outcomes,    \* per derived struct: Vec<Result<Self, anyhow::Error>>
    tups,        \* build_tups' return value: Option<Vec<TupType>>
    ty,          \* from_type's first argument
    val,         \* from_type's second argument
    coerced      \* what evaluating from_type's match produced

vars == <<pc, result_set, maps, outcomes, tups, ty, val, coerced>>

----------------------------------------------------------------------------
(* Bounds of the model *)

MaxCols == 2
MaxCells == 2
MaxRows == 2
MaxFields == 2
MaxTextLen == 3

SeqsUpTo(S, n) == UNION {[1..k -> S] : k \in 0..n}

----------------------------------------------------------------------------
(* str::parse::<T>() for the scalar types the workspace parses into *)

DigitChars == {"0", "1", "2", "3", "4", "5", "6", "7", "8", "9"}

DigitVal(c) ==
    CASE c = "0" -> 0 [] c = "1" -> 1 [] c = "2" -> 2 [] c = "3" -> 3
      [] c = "4" -> 4 [] c = "5" -> 5 [] c = "6" -> 6 [] c = "7" -> 7
      [] c = "8" -> 8 [] c = "9" -> 9

Ok(v) == [ok |-> TRUE, v |-> v]

ParseErr(msg) == [ok |-> FALSE, msg |-> msg]

\* The character U+0060, which a TLA+ string cannot hold.
Backtick == "<U+0060>"

\* Display of the errors of core::num, core::str and core::num::dec2flt; a
\* message is the sequence of its pieces.
IntEmpty == <<"cannot parse integer from empty string">>
IntInvalidDigit == <<"invalid digit found in string">>
IntPosOverflow == <<"number too large to fit in target type">>
IntNegOverflow == <<"number too small to fit in target type">>
BoolInvalid == <<"provided string was not ", Backtick, "true", Backtick, " or ",
                 Backtick, "false", Backtick>>
FloatEmpty == <<"cannot parse float from empty string">>
FloatInvalid == <<"invalid float literal">>

RECURSIVE Pow2(_)
Pow2(n) == IF n = 0 THEN 1 ELSE 2 * Pow2(n - 1)

\* T::MIN and T::MAX of the integer type of the given size in bytes.
IntMin(signed, bytes) == IF signed THEN 0 - Pow2(8 * bytes - 1) ELSE 0

IntMax(signed, bytes) ==
    IF signed THEN Pow2(8 * bytes - 1) - 1 ELSE Pow2(8 * bytes) - 1

\* can_not_overflow of from_str_radix: so few digits that no value of them
\* leaves the type, and the loop runs without the checked arithmetic.
CanNotOverflow(signed, bytes, digits) ==
    Len(digits) <= 2 * bytes - (IF signed THEN 1 ELSE 0)

\* The digit loop of from_str_radix (radix 10): left to right, an invalid
\* digit is reported before the overflow of the multiplication at the same
\* character, an overflow ends the loop at once.
RECURSIVE IntDigits(_, _, _, _, _, _, _)
IntDigits(digits, i, acc, positive, checked, signed, bytes) ==
    IF i > Len(digits) THEN Ok(acc)
    ELSE IF digits[i] \notin DigitChars THEN ParseErr(IntInvalidDigit)
    ELSE LET next == IF positive THEN acc * 10 + DigitVal(digits[i])
                                 ELSE acc * 10 - DigitVal(digits[i])
         IN  IF checked /\ next > IntMax(signed, bytes)
               THEN ParseErr(IntPosOverflow)
             ELSE IF checked /\ next < IntMin(signed, bytes)
               THEN ParseErr(IntNegOverflow)
             ELSE IntDigits(digits, i + 1, next, positive, checked, signed, bytes)

\* <iN as FromStr>::from_str / <uN as FromStr>::from_str
ParseInt(s, signed, bytes) ==
    IF Len(s) = 0 THEN ParseErr(IntEmpty)
    ELSE IF Len(s) = 1 /\ s[1] \in {"+", "-"} THEN ParseErr(IntInvalidDigit)
    ELSE LET stripped == s[1] = "+" \/ (s[1] = "-" /\ signed)
             digits == IF stripped THEN Tail(s) ELSE s
         IN  IntDigits(digits, 1, 0, ~(s[1] = "-" /\ signed),
                       ~CanNotOverflow(signed, bytes, digits), signed, bytes)

\* <bool as FromStr>::from_str
ParseBool(s) ==
    IF s = <<"t", "r", "u", "e">> THEN Ok(TRUE)
    ELSE IF s = <<"f", "a", "l", "s", "e">> THEN Ok(FALSE)
    ELSE ParseErr(BoolInvalid)

\* Length of the longest run of decimal digits of s that starts at i.
RECURSIVE DigitRun(_, _)
DigitRun(s, i) ==
    IF i <= Len(s) /\ s[i] \in DigitChars THEN 1 + DigitRun(s, i + 1) ELSE 0

RECURSIVE DigitsValue(_, _, _, _)
DigitsValue(s, i, n, acc) ==
    IF n = 0 THEN acc ELSE DigitsValue(s, i + 1, n - 1, acc * 10 + DigitVal(s[i]))

RECURSIVE Pow10(_)
Pow10(n) == IF n = 0 THEN 1 ELSE 10 * Pow10(n - 1)

\* A decimal mant * 10^(-scale) with the trailing zeros of its fraction
\* removed, so that "1.50" and "1.5" are the same value.
RECURSIVE Normal(_, _, _)
Normal(neg, mant, scale) ==
    IF scale > 0 /\ mant % 10 = 0 THEN Normal(neg, mant \div 10, scale - 1)
    ELSE [neg |-> neg, mant |-> mant, scale |-> scale]

\* <f64 as FromStr>::from_str / <f32 as FromStr>::from_str (dec2flt) on text
\* without an exponent and without the inf/nan words: an optional sign, then
\* digits, optionally a point and digits, at least one digit in all, nothing after.
\* The float is named by the decimal it is nearest to, which is exact for
\* the short literals of the model.
ParseFloat(s) ==
    IF Len(s) = 0 THEN ParseErr(FloatEmpty)
    ELSE LET signed == s[1] \in {"+", "-"}
             neg == s[1] = "-"
             b == IF signed THEN 2 ELSE 1
             ni == DigitRun(s, b)
             dot == b + ni <= Len(s) /\ s[b + ni] = "."
             nf == IF dot THEN DigitRun(s, b + ni + 1) ELSE 0
             end == b + ni + (IF dot THEN 1 + nf ELSE 0)
         IN  IF b > Len(s) THEN ParseErr(FloatInvalid)
             ELSE IF ni + nf = 0 \/ end <= Len(s) THEN ParseErr(FloatInvalid)
             ELSE Ok(Normal(neg,
                            DigitsValue(s, b, ni, 0) * Pow10(nf)
                              + (IF dot THEN DigitsValue(s, b + ni + 1, nf, 0) ELSE 0),
                            nf))

\* s.parse::<T>() with T named as in Rust.
Parse(t, s) ==
    CASE t = "bool" -> ParseBool(s)
      [] t = "i8" -> ParseInt(s, TRUE, 1)
      [] t = "i16" -> ParseInt(s, TRUE, 2)
      [] t = "i32" -> ParseInt(s, TRUE, 4)
      [] t = "i64" -> ParseInt(s, TRUE, 8)
      [] t = "u8" -> ParseInt(s, FALSE, 1)
      [] t = "f32" -> ParseFloat(s)
      [] t = "f64" -> ParseFloat(s)
      [] t = "String" -> Ok(s)

----------------------------------------------------------------------------
(* aws-athena-parser: build_map *)

\* Datum::var_char_value(): Option<&str>
None == [some |-> FALSE, v |-> <<>>]

Some(s) == [some |-> TRUE, v |-> s]

\* d.var_char_value().unwrap_or("").to_string()
CellText(d) == IF d.some THEN d.v ELSE <<>>

\* HashMap::new(), a function with no key.
EmptyMap == [k \in {} |-> <<>>]

\* An insert that keeps the value of a key already there.
Insert_KeepFirst(m, k, v) ==
    [x \in DOMAIN m \cup {k} |-> IF x \in DOMAIN m THEN m[x] ELSE v]

\* HashMap::insert: the value of a key already there is replaced.
Insert(m, k, v) == [x \in DOMAIN m \cup {k} |-> IF x = k THEN v ELSE m[x]]

\* A zip that goes on to the end of the column names and pairs the names
\* that have no cell with the empty text.
RECURSIVE ZipCollect_Padded(_, _, _, _)
ZipCollect_Padded(data, columns, i, m) ==
    IF i > Len(columns) THEN m
    ELSE ZipCollect_Padded(data, columns, i + 1,
                           Insert(m, columns[i],
                                  IF i <= Len(data) THEN CellText(data[i]) ELSE <<>>))

\* Iterator::zip of the cells of one row with the column names, collected
\* into a HashMap: zip ends with the shorter of the two, the pairs are
\* inserted in order.
RECURSIVE ZipCollect(_, _, _, _)
ZipCollect(data, columns, i, m) ==
    IF i > Len(data) \/ i > Len(columns) THEN m
    ELSE ZipCollect(data, columns, i + 1,
                    Insert(m, columns[i], CellText(data[i])))

\* A closure that pairs the cells with the column names taken from the last.
RowMap_Reversed(data, columns) ==
    ZipCollect(data, [i \in 1..Len(columns) |-> columns[Len(columns) + 1 - i]],
               1, EmptyMap)

\* The closure build_map maps over result_set.rows().
RowMap(data, columns) == ZipCollect(data, columns, 1, EmptyMap)

\* A build_map that, without metadata, returns one empty map per row.
build_map_PerRow(rs) ==
    LET columns == [i \in 1..Len(rs.columns) |-> rs.columns[i].name]
    IN  [r \in 1..Len(rs.rows) |-> RowMap(rs.rows[r], columns)]

build_map(rs) ==
    IF rs.meta
    THEN LET columns == [i \in 1..Len(rs.columns) |-> rs.columns[i].name]
         IN  [r \in 1..Len(rs.rows) |-> RowMap(rs.rows[r], columns)]
    ELSE <<>>

----------------------------------------------------------------------------
(* from-athena-derive: the impl FromAthena the derive macro emits for a     *)
(* struct, given as the sequence of its named fields [name, ty].            *)

\* anyhow::Error::msg(format!(...)): the format string in pieces, "{}" where
\* an argument goes, and the arguments.
MissingField(name) ==
    [fmt |-> <<"Missing field within result set. ", Backtick, "{}", Backtick,
               " was not found!">>,
     args |-> <<name>>]

\* The anyhow::Error the ? operator makes of a FromStr error: its message
\* is the Display of that error.
FromParseError(msg) == [fmt |-> msg, args |-> <<>>]

\* A field initialiser that puts the field's name before a parse error.
FieldValue_WithContext(field, row) ==
    IF field.name \notin DOMAIN row
    THEN [ok |-> FALSE, err |-> MissingField(field.name)]
    ELSE LET p == Parse(field.ty, row[field.name])
         IN  IF p.ok THEN p
             ELSE [ok |-> FALSE,
                   err |-> [fmt |-> <<"{}", ": ">> \o p.msg, args |-> <<field.name>>]]

\* One field initialiser:
\*   row.get(stringify!(name)).ok_or(missing)?.parse::<ty>()?
FieldValue(field, row) ==
    IF field.name \notin DOMAIN row
    THEN [ok |-> FALSE, err |-> MissingField(field.name)]
    ELSE LET p == Parse(field.ty, row[field.name])
         IN  IF p.ok THEN p ELSE [ok |-> FALSE, err |-> FromParseError(p.msg)]

\* Ok(Self { f1: ..., f2: ..., ... }): the initialisers run in the order
\* written and the first ? that meets an error returns it.  evaluated counts
\* the initialisers that ran.
RECURSIVE FieldsFrom(_, _, _, _)
FieldsFrom(fields, row, i, rec) ==
    IF i > Len(fields) THEN [ok |-> TRUE, rec |-> rec, evaluated |-> i - 1]
    ELSE LET f == FieldValue(fields[i], row)
         IN  IF f.ok
             THEN FieldsFrom(fields, row, i + 1, Insert(rec, fields[i].name, f.v))
             ELSE [ok |-> FALSE, err |-> f.err, evaluated |-> i]

\* A from_athena whose initialisers run from the last field to the first.
from_athena_Reversed(fields, row) ==
    LET r == FieldsFrom([i \in 1..Len(fields) |-> fields[Len(fields) + 1 - i]],
                        row, 1, EmptyMap)
    IN  r

from_athena(fields, row) == FieldsFrom(fields, row, 1, EmptyMap)

\* A collect that keeps the records only (flat_map over the Results).
RECURSIVE DecodeAll_FlatMap(_, _)
DecodeAll_FlatMap(fields, ms) ==
    IF Len(ms) = 0 THEN <<>>
    ELSE LET o == from_athena(fields, ms[1])
         IN  (IF o.ok THEN <<o>> ELSE <<>>) \o DecodeAll_FlatMap(fields, Tail(ms))

\* build_map(result_set).iter().map(|x| S::from_athena(x.clone())).collect()
\* after build_map: one Result per map, in order.
DecodeAll(fields, ms) == [k \in 1..Len(ms) |-> from_athena(fields, ms[k])]

----------------------------------------------------------------------------
(* parser: from_type and build_tups *)

\* The byte of a character (String::into_bytes), for the characters of the
\* model's texts.
ByteOf(c) ==
    CASE c = "+" -> 43 [] c = "-" -> 45 [] c = "." -> 46
      [] c \in DigitChars -> 48 + DigitVal(c)
      [] c = "a" -> 97 [] c = "e" -> 101 [] c = "f" -> 102 [] c = "l" -> 108
      [] c = "r" -> 114 [] c = "s" -> 115 [] c = "t" -> 116 [] c = "u" -> 117
      [] c = "x" -> 120

\* AthenaTypes::Variant(val.parse().unwrap()): unwrap panics on Err.
Unwrapped(variant, p) ==
    IF p.ok THEN [panic |-> FALSE, variant |-> variant, v |-> p.v]
    ELSE [panic |-> TRUE, err |-> p.msg]

Variant(variant, v) == [panic |-> FALSE, variant |-> variant, v |-> v]

\* The match of from_type on the tag.
Match(t, s) ==
    CASE t = "boolean" -> Unwrapped("Boolean", Parse("bool", s))
      [] t = "tinyint" -> Unwrapped("TinyInt", Parse("i8", s))
      [] t = "smallint" -> Unwrapped("SmallInt", Parse("i16", s))
      [] t = "integer" -> Unwrapped("Integer", Parse("i32", s))
      [] t = "int" -> Unwrapped("Int", Parse("i32", s))
      [] t = "bigint" -> Unwrapped("Bigint", Parse("i64", s))
      [] t = "double" -> Unwrapped("Double", Parse("f64", s))
      [] t = "float" -> Unwrapped("Float", Parse("f32", s))
      [] t = "decimal" -> Unwrapped("Decimal", Parse("f64", s))
      [] t = "char" -> Unwrapped("Char", Parse("u8", s))
      [] t = "varchar" -> Variant("VarChar", s)
      [] t = "string" -> Variant("String", s)
      [] t = "ipaddr" -> Variant("IPAddr", s)
      [] t = "binary" -> Variant("Binary", [i \in 1..Len(s) |-> ByteOf(s[i])])
      [] t = "date" -> Variant("Date", s)
      [] t = "timestamp" -> Variant("TimeStamp", s)
      [] OTHER -> Variant("String", s)

\* str::to_lowercase on the tags of the model.
Lower(t) ==
    CASE t = "BIGINT" -> "bigint" [] t = "Boolean" -> "boolean"
      [] t = "Varchar" -> "varchar" [] OTHER -> t

\* from_type matching the tag whatever its case.
from_type_AnyCase(t, s) == Match(Lower(t), s)

\* What evaluating from_type produces: the value of its match (the function
\* ends the match with a semicolon and returns the unit value), or the
\* panic of an unwrap.
from_type(t, s) == Match(t, s)

\* columns.iter().flat_map(|(col, ty)| row.iter().map(|val| (col, ty, val)))
\* from column i on: for each column, one triple per cell of the row.
RECURSIVE FlatMap(_, _, _)
FlatMap(columns, row, i) ==
    IF i > Len(columns) THEN <<>>
    ELSE [j \in 1..Len(row) |-> <<columns[i].name, columns[i].type, row[j]>>]
           \o FlatMap(columns, row, i + 1)

build_tups(rs) ==
    IF rs.meta
    THEN LET rows == [r \in 1..Len(rs.rows) |->
                        [j \in 1..Len(rs.rows[r]) |-> CellText(rs.rows[r][j])]]
         IN  Some([r \in 1..Len(rows) |-> FlatMap(rs.columns, rows[r], 1)])
    ELSE None

----------------------------------------------------------------------------
(* The inputs of the model *)

ColNames == {<<"a">>, <<"b">>}

\* Field names: the column names and one that no column has.
FieldNames == ColNames \cup {<<"c">>}

ColTags == {"bigint", "varchar"}

FieldTypes == {"i64", "String"}

Columns(tags) == SeqsUpTo([name : ColNames, type : tags], MaxCols)

\* The cells of the rows.
Cells == {None, Some(<<"1", "0", "0">>), Some(<<"-", "1">>), Some(<<"x">>)}

\* A row of up to MaxCells cells, each any cell.
Rows == SeqsUpTo(Cells, MaxCells)

\* A row of up to MaxCells cells that are all null, all "100" or all "x".
PlainRows ==
    {[i \in 1..k |-> c] : k \in 0..MaxCells,
                          c \in {None, Some(<<"1", "0", "0">>), Some(<<"x">>)}}

\* Result sets of at most one row, of any columns and cells, and result sets
\* of up to MaxRows plain rows under bigint columns of any names.
ResultSets ==
    LET one == SeqsUpTo(Rows, 1)
        many == SeqsUpTo(PlainRows, MaxRows)
    IN  [meta : {TRUE}, columns : Columns(ColTags), rows : one]
          \cup [meta : {TRUE}, columns : Columns({"bigint"}), rows : many]
          \cup [meta : {FALSE}, columns : {<<>>}, rows : one \cup many]

\* The structs that derive FromAthena: up to MaxFields named fields, no name
\* twice.
Structs ==
    {s \in SeqsUpTo([name : FieldNames, ty : FieldTypes], MaxFields) :
        \A i, j \in 1..Len(s) : i # j => s[i].name # s[j].name}

\* The vocabulary of from_type, tags that differ from it in case only, and
\* tags outside it.
Vocabulary ==
    {"boolean", "tinyint", "smallint", "integer", "int", "bigint", "double",
     "float", "decimal", "char", "varchar", "string", "ipaddr", "binary",
     "date", "timestamp"}

ParsedKinds ==
    {"boolean", "tinyint", "smallint", "integer", "int", "bigint", "double",
     "float", "decimal", "char"}

Tags == Vocabulary \cup {"BIGINT", "Boolean", "Varchar", "unknown_type", "array", ""}

Alphabet == {"0", "1", "2", "9", "-", "+", ".", "x"}

Texts ==
    SeqsUpTo(Alphabet, MaxTextLen)
      \cup {<<"t", "r", "u", "e">>, <<"f", "a", "l", "s", "e">>,
            <<"1", "0", "0", ".", "0">>, <<"-", "1", "2", "9">>}

----------------------------------------------------------------------------
(* The calls *)

NoResultSet == [meta |-> FALSE, columns |-> <<>>, rows |-> <<>>]

\* A caller holds either a result set to decode or a tag and a text to
\* coerce.
Init ==
    /\ maps = <<>>
    /\ outcomes = <<>>
    /\ tups = None
    /\ coerced = <<>>
    /\ \/ /\ pc = "result_set"
          /\ result_set \in ResultSets
          /\ ty = ""
          /\ val = <<>>
       \/ /\ pc = "tagged"
          /\ result_set = NoResultSet
          /\ ty \in Tags
          /\ val \in Texts

\* let maps = build_map(result_set);
BuildMap ==
    /\ pc = "result_set"
    /\ maps' = build_map(result_set)
    /\ pc' = "mapped"
    /\ UNCHANGED <<result_set, outcomes, tups, ty, val, coerced>>

\* maps.iter().map(|x| S::from_athena(x.clone())).collect(), for each
\* struct S.
FromAthena ==
    /\ pc = "mapped"
    /\ outcomes' = [s \in Structs |-> DecodeAll(s, maps)]
    /\ pc' = "decoded"
    /\ UNCHANGED <<result_set, maps, tups, ty, val, coerced>>

\* let tups = build_tups(result_set);
BuildTups ==
    /\ pc = "result_set"
    /\ tups' = build_tups(result_set)
    /\ pc' = "tupled"
    /\ UNCHANGED <<result_set, maps, outcomes, ty, val, coerced>>

\* from_type(ty, val)
FromType ==
    /\ pc = "tagged"
    /\ coerced' = from_type(ty, val)
    /\ pc' = IF coerced'.panic THEN "panicked" ELSE "coerced"
    /\ UNCHANGED <<result_set, maps, outcomes, tups, ty, val>>

Next == BuildMap \/ FromAthena \/ BuildTups \/ FromType

Spec == Init /\ [][Next]_vars

----------------------------------------------------------------------------
(* Vocabulary of the properties *)

Cols == result_set.columns

RowsIn == result_set.rows

NamesOf(columns) == {columns[i].name : i \in 1..Len(columns)}

DistinctNames(columns) ==
    \A i, j \in 1..Len(columns) : i # j => columns[i].name # columns[j].name

\* The position of the last column of the given name among the first n.
LastPos(name, n) ==
    CHOOSE i \in 1..n :
        /\ Cols[i].name = name
        /\ \A j \in 1..n : Cols[j].name = name => j <= i

\* The field is absent from the lookup, or its text does not parse as the
\* field's type.
Missing(f, row) == f.name \notin DOMAIN row

Unparseable(f, row) == f.name \in DOMAIN row /\ ~Parse(f.ty, row[f.name]).ok

Fails(f, row) == Missing(f, row) \/ Unparseable(f, row)

\* The error names the text: the text is one of its arguments.
Names(err, text) == \E i \in 1..Len(err.args) : err.args[i] = text

\* stringify! of a field's type.
TypeName(t) ==
    CASE t = "i64" -> <<"i", "6", "4">>
      [] t = "String" -> <<"S", "t", "r", "i", "n", "g">>

----------------------------------------------------------------------------
\* C1: for a result set with metadata and distinct column names, a row with
\* as many cells as columns and a struct whose fields are all column names
\* and whose cells parse as the fields' types, build_map then from_athena
\* succeeds and each field is the parse, by the field's type, of the cell at
\* the position of the column of the field's name, whatever the column's
\* tag and the order of the columns.
C1_WellFormedRowDecodes ==
    (pc = "decoded" /\ result_set.meta /\ DistinctNames(Cols)) =>
        \A k \in 1..Len(RowsIn) : \A s \in Structs :
            LET cell(f) == CellText(RowsIn[k][LastPos(f.name, Len(Cols))])
            IN  ( /\ Len(RowsIn[k]) = Len(Cols)
                  /\ \A i \in 1..Len(s) : s[i].name \in NamesOf(Cols)
                  /\ \A i \in 1..Len(s) : Parse(s[i].ty, cell(s[i])).ok )
                => /\ outcomes[s][k].ok
                   /\ DOMAIN outcomes[s][k].rec = {s[i].name : i \in 1..Len(s)}
                   /\ \A i \in 1..Len(s) :
                        outcomes[s][k].rec[s[i].name] = Parse(s[i].ty, cell(s[i])).v

\* A decoded record of two fields declared in the reverse of the column
\* order, the i64 field read from a varchar column.
C1_Witness ==
    /\ pc = "decoded"
    /\ result_set.meta
    /\ Cols = << [name |-> <<"b">>, type |-> "bigint"],
                 [name |-> <<"a">>, type |-> "varchar"] >>
    /\ RowsIn = << <<Some(<<"x">>), Some(<<"-", "1">>)>> >>
    /\ LET s == << [name |-> <<"a">>, ty |-> "i64"],
                   [name |-> <<"b">>, ty |-> "String"] >>
       IN  /\ outcomes[s][1].ok
           /\ outcomes[s][1].rec[<<"a">>] = 0 - 1
           /\ outcomes[s][1].rec[<<"b">>] = <<"x">>

\* C2: from_athena visits the fields in declaration order and stops at the
\* first that is missing or unparseable: the error is that field's, no later
\* field is evaluated, no record is returned, and for a missing field the
\* message is "Missing field within result set. `<field>` was not found!".
C2_FirstFailingFieldDecides ==
    pc = "decoded" =>
        \A s \in Structs : \A k \in 1..Len(maps) :
            LET row == maps[k]
                o == outcomes[s][k]
                failing == {i \in 1..Len(s) : Fails(s[i], row)}
            IN  IF failing = {}
                THEN o.ok /\ o.evaluated = Len(s)
                ELSE LET e == CHOOSE i \in failing : \A j \in failing : i <= j
                     IN  /\ ~o.ok
                         /\ "rec" \notin DOMAIN o
                         /\ o.evaluated = e
                         /\ Missing(s[e], row) =>
                              /\ o.err.fmt = <<"Missing field within result set. ",
                                               Backtick, "{}", Backtick,
                                               " was not found!">>
                              /\ o.err.args = <<s[e].name>>
                         /\ Unparseable(s[e], row) =>
                              o.err.fmt = Parse(s[e].ty, row[s[e].name]).msg

\* A struct whose first field is missing and whose second is unparseable:
\* the error is the first field's.
C2_Witness ==
    /\ pc = "decoded"
    /\ \E k \in 1..Len(maps) :
         LET s == << [name |-> <<"c">>, ty |-> "String"],
                     [name |-> <<"a">>, ty |-> "i64"] >>
         IN  /\ Missing(s[1], maps[k])
             /\ Unparseable(s[2], maps[k])
             /\ ~outcomes[s][k].ok
             /\ outcomes[s][k].err.args = << <<"c">> >>
             /\ outcomes[s][k].evaluated = 1

\* C3 as claimed: for a row with fewer cells than columns the lookup has
\* every column name, the columns beyond the cells map to the empty text,
\* and there is one lookup per row.
C3_ShortRowPadded ==
    (pc \in {"mapped", "decoded"} /\ result_set.meta) =>
        /\ Len(maps) = Len(RowsIn)
        /\ \A k \in 1..Len(RowsIn) :
             Len(RowsIn[k]) < Len(Cols) =>
                /\ DOMAIN maps[k] = NamesOf(Cols)
                /\ \A i \in (Len(RowsIn[k]) + 1)..Len(Cols) :
                     (\A j \in 1..Len(RowsIn[k]) : Cols[j].name # Cols[i].name)
                       => maps[k][Cols[i].name] = <<>>

\* C3 amended: for a row with fewer cells than columns the lookup has
\* exactly the names of the columns that have a cell, each with the cell of
\* the last such column of that name; a name that only columns beyond the
\* cells have is absent, and a field declared for it, of any type, fails as
\* missing; there is one lookup per row.
C3_ShortRowTruncated ==
    (pc \in {"mapped", "decoded"} /\ result_set.meta) =>
        /\ Len(maps) = Len(RowsIn)
        /\ \A k \in 1..Len(RowsIn) :
             Len(RowsIn[k]) < Len(Cols) =>
                LET n == Len(RowsIn[k])
                    beyond == NamesOf(Cols) \ {Cols[i].name : i \in 1..n}
                IN  /\ DOMAIN maps[k] = {Cols[i].name : i \in 1..n}
                    /\ \A i \in 1..n :
                         maps[k][Cols[i].name]
                           = CellText(RowsIn[k][LastPos(Cols[i].name, n)])
                    /\ pc = "decoded" =>
                         \A s \in Structs :
                             (Len(s) >= 1 /\ s[1].name \in beyond) =>
                                 /\ ~outcomes[s][k].ok
                                 /\ outcomes[s][k].err = MissingField(s[1].name)

\* A row of one cell under columns a, b: b is absent from the lookup and the
\* String field b fails as missing.
C3_Witness ==
    /\ pc = "decoded"
    /\ result_set.meta
    /\ Len(Cols) = 2 /\ Cols[1].name = <<"a">> /\ Cols[2].name = <<"b">>
    /\ Len(RowsIn) = 1 /\ Len(RowsIn[1]) = 1
    /\ DOMAIN maps[1] = {<<"a">>}
    /\ ~outcomes[<< [name |-> <<"b">>, ty |-> "String"] >>][1].ok

\* C4: without metadata build_map returns the empty sequence, whatever the
\* rows: no lookup, no error, no outcome per row.
C4_NoMetadataNoRows ==
    (pc \in {"mapped", "decoded"} /\ ~result_set.meta) =>
        /\ maps = <<>>
        /\ pc = "decoded" => \A s \in Structs : outcomes[s] = <<>>

\* A result set without metadata and with two rows of cells, decoded.
C4_Witness ==
    /\ pc = "decoded"
    /\ ~result_set.meta
    /\ Len(RowsIn) = 2
    /\ Len(RowsIn[1]) > 0 /\ Len(RowsIn[2]) > 0
    /\ maps = <<>>

\* C5: with metadata there is one outcome per row, in row order, and the
\* k-th outcome is the outcome of the k-th row alone (the decode of the
\* result set of the same metadata and that one row), also for rows without
\* cells and rows that fail to decode.
C5_OutcomePerRow ==
    (pc = "decoded" /\ result_set.meta) =>
        \A s \in Structs :
            /\ Len(outcomes[s]) = Len(RowsIn)
            /\ \A k \in 1..Len(RowsIn) :
                 LET alone == DecodeAll(s, build_map([result_set EXCEPT
                                                        !.rows = <<RowsIn[k]>>]))
                 IN  Len(alone) = 1 /\ outcomes[s][k] = alone[1]

\* Two rows, the first without cells and failing, the second decoded.
C5_Witness ==
    /\ pc = "decoded"
    /\ result_set.meta
    /\ Len(RowsIn) = 2
    /\ RowsIn[1] = <<>>
    /\ LET s == << [name |-> <<"a">>, ty |-> "i64"] >>
       IN  ~outcomes[s][1].ok /\ outcomes[s][2].ok

\* C6 as claimed: whatever the column names, a row with as many cells as
\* columns gives a lookup with as many entries as columns.
C6_LookupSizeIsColumnCount ==
    (pc \in {"mapped", "decoded"} /\ result_set.meta) =>
        \A k \in 1..Len(RowsIn) :
            Len(RowsIn[k]) = Len(Cols) =>
                Cardinality(DOMAIN maps[k]) = Len(Cols)

\* C6 amended: a row with as many cells as columns gives a lookup with one
\* entry per distinct column name, holding the cell of the last column of
\* that name; it has as many entries as columns exactly when no name
\* repeats.
C6_LookupSizeIsDistinctNames ==
    (pc \in {"mapped", "decoded"} /\ result_set.meta) =>
        \A k \in 1..Len(RowsIn) :
            Len(RowsIn[k]) = Len(Cols) =>
                /\ DOMAIN maps[k] = NamesOf(Cols)
                /\ (Cardinality(DOMAIN maps[k]) = Len(Cols)) <=> DistinctNames(Cols)
                /\ \A i \in 1..Len(Cols) :
                     maps[k][Cols[i].name]
                       = CellText(RowsIn[k][LastPos(Cols[i].name, Len(Cols))])

\* Two columns of one name and a row of two different cells: one entry, the
\* second cell.
C6_Witness ==
    /\ pc = "mapped"
    /\ result_set.meta
    /\ Len(Cols) = 2 /\ Cols[1].name = <<"a">> /\ Cols[2].name = <<"a">>
    /\ RowsIn = << <<Some(<<"x">>), Some(<<"1", "0", "0">>)>> >>
    /\ DOMAIN maps[1] = {<<"a">>}
    /\ maps[1][<<"a">>] = <<"1", "0", "0">>

\* C7 as claimed: when the first failing field is present but unparseable,
\* the error names the field, its declared type and the raw text.
C7_ParseErrorNamesField ==
    pc = "decoded" =>
        \A s \in Structs : \A k \in 1..Len(maps) :
            \A e \in 1..Len(s) :
                ( /\ Unparseable(s[e], maps[k])
                  /\ \A j \in 1..(e - 1) : ~Fails(s[j], maps[k]) )
                => /\ ~outcomes[s][k].ok
                   /\ Names(outcomes[s][k].err, s[e].name)
                   /\ Names(outcomes[s][k].err, TypeName(s[e].ty))
                   /\ Names(outcomes[s][k].err, maps[k][s[e].name])

\* C7 amended: when the first failing field is present but unparseable,
\* from_athena fails the whole record with the error of the parser of the
\* field's type, unchanged: its message is the parser's and it names
\* neither the field nor its type nor the raw text.
C7_ParseErrorIsParsers ==
    pc = "decoded" =>
        \A s \in Structs : \A k \in 1..Len(maps) :
            \A e \in 1..Len(s) :
                ( /\ Unparseable(s[e], maps[k])
                  /\ \A j \in 1..(e - 1) : ~Fails(s[j], maps[k]) )
                => /\ ~outcomes[s][k].ok
                   /\ "rec" \notin DOMAIN outcomes[s][k]
                   /\ outcomes[s][k].err.fmt
                        = Parse(s[e].ty, maps[k][s[e].name]).msg
                   /\ outcomes[s][k].err.args = <<>>

\* The i64 field a read from the text "x": the record fails with the
\* message of the integer parser.
C7_Witness ==
    /\ pc = "decoded"
    /\ \E k \in 1..Len(maps) :
         /\ <<"a">> \in DOMAIN maps[k]
         /\ maps[k][<<"a">>] = <<"x">>
         /\ LET o == outcomes[<< [name |-> <<"a">>, ty |-> "i64"] >>][k]
            IN  ~o.ok /\ o.err.fmt = <<"invalid digit found in string">>

\* The Rust type the parsed kind of a tag parses into (enum AthenaTypes).
KindType(t) ==
    CASE t = "boolean" -> "bool" [] t = "tinyint" -> "i8"
      [] t = "smallint" -> "i16" [] t = "integer" -> "i32"
      [] t = "int" -> "i32" [] t = "bigint" -> "i64"
      [] t = "double" -> "f64" [] t = "float" -> "f32"
      [] t = "decimal" -> "f64" [] t = "char" -> "u8"

\* C8: when the tag is a parsed kind and its parser rejects the text,
\* from_type returns an error value that names the tag and the text, and
\* nothing is aborted.
C8_RejectionIsAValue ==
    (pc \in {"coerced", "panicked"} /\ ty \in ParsedKinds
       /\ ~Parse(KindType(ty), val).ok) =>
        /\ ~coerced.panic
        /\ coerced.variant = "TypeCoercionError"
        /\ coerced.v = <<ty, val>>

C10_OneTriplePerColumn ==
    (pc = "tupled" /\ result_set.meta) =>
        /\ tups.some
        /\ Len(tups.v) = Len(RowsIn)
        /\ \A r \in 1..Len(RowsIn) :
             Len(RowsIn[r]) = Len(Cols) =>
                /\ Len(tups.v[r]) = Len(Cols)
                /\ \A i \in 1..Len(Cols) :
                     tups.v[r][i] = <<Cols[i].name, Cols[i].type,
                                      CellText(RowsIn[r][i])>>
====
